---- MODULE Spec2Model ----
(***************************************************************************)
(* Model of the LinkedIn company processor Lambda:                         *)
(*   lambda_handler.py   entry point, cached processor                     *)
(*   processor.py        NewCompanyProcessor.process_webpage, the two      *)
(*                       provider paths and compare_apis_for_webpage       *)
(*   services.py         CompanyDataService wrappers around the REST API   *)
(*   data_mapper.py      mapping, normalisation, validation, quality       *)
(*                       score, processing metadata                        *)
(*   bs/linkedinCompanyNewScraper.py   html_to_object                      *)
(*                                                                         *)
(* Spec is the Lambda handler with its collaborators; PureSpec applies the *)
(* pure functions of data_mapper.py and the scraper to bounded inputs.     *)
(*                                                                         *)
(* Python values are modelled as strings.  Absent stands for "key not in   *)
(* the dict", NoneV for None, "int:n" for the integer n, "bool:True" for   *)
(* True; every other string is itself.  Blank is a whitespace-only string. *)
(***************************************************************************)
EXTENDS Integers, Sequences, FiniteSets, TLC

VARIABLES cfg, processor, invocations, pc, payload, url, extracted_data,
          update_data, jina_result, rapidapi_result, result, response, calls,
          action, fn, args, returned

\* fn, args, returned: a call of one of the pure functions of data_mapper.py
\* and the scraper (the function applied, its arguments, what it returned)
pureVars == <<fn, args, returned>>

vars == <<cfg, processor, invocations, pc, payload, url, extracted_data,
          update_data, jina_result, rapidapi_result, result, response, calls,
          action, pureVars>>

\* ------------------------------------------------------------------ bounds
MaxInvocations == 2

\* --------------------------------------------------------- program constants
DefaultMinPopulated == 3

\* ------------------------------------------------------------ Python values
Absent == "<absent>"
NoneV == "<None>"
Blank == " "
PyTrue == "bool:True"
Now == "<utcnow>"

\* bool(v) for the values of the model
Truthy(v) == v \notin {Absent, NoneV, "", "int:0"}

\* str(v)
Str(v) == CASE v = NoneV -> "None"
            [] v = "int:0" -> "0"
            [] v = "int:25" -> "25"
            [] v = PyTrue -> "True"
            [] OTHER -> v

\* texts that neither start nor end with whitespace
Cores == {"Acme Corp", "Acme  Corp", "acme.com", "https://acme.com", "11-50"}

\* a text with leading and trailing whitespace
Padded(t) == " " \o t \o " "

\* v.strip() for a string v: the whitespace-only strings become empty, a
\* padded text loses its padding
Strip(v) == IF v = Blank THEN ""
            ELSE IF \E t \in Cores : v = Padded(t)
            THEN CHOOSE t \in Cores : v = Padded(t)
            ELSE v

\* html.unescape(v): the entity &nbsp; becomes the whitespace character U+00A0
Unescape(v) == IF v = "&nbsp;" THEN Blank ELSE v

\* d.get(k) on a value that may be Absent
Get(v) == IF v = Absent THEN NoneV ELSE v

\* Python's  a or b
PyOr(a, b) == IF Truthy(a) THEN a ELSE b

\* ------------------------------------------------------------ record schema
BaselineKeys == {"type", "name", "about", "company_size", "followers",
                 "headquarters", "industry", "specialties", "website",
                 "headline"}

RapidOnlyKeys == {"founded", "universalName", "phone", "companyLogo",
                  "staffCount", "locations", "crunchbaseUrl", "fundingData"}

MetadataKeys == {"platform", "scrapped", "extracted", "processed_via",
                 "extractedAt", "scrappedAt", "processedAt",
                 "websiteMarkdownStatus", "processor_version", "worker_id",
                 "extraction_method", "url"}

StdKeys == BaselineKeys \cup RapidOnlyKeys \cup MetadataKeys

\* the dict {} over the standard keys
EmptyRec == [k \in StdKeys |-> Absent]

\* bool(d) for a dict: non-empty
TruthyDict(d) == \E k \in DOMAIN d : d[k] # Absent

\* config.REQUIRED_FIELDS_FOR_VALIDATION (default value)
REQUIRED_FIELDS_FOR_VALIDATION ==
    {"name", "about", "website", "industry", "headquarters", "headline",
     "company_size", "followers"}

\* ----------------------------------------------------------- html_to_object
\* A markup is modelled by the content of the element each marker selects
\* (Absent: the marker does not occur).
MarkupFields == {"name", "about", "website", "specialties"}
MarkupContents == {Absent, "&nbsp;", "Acme Corp"}
Markups == [MarkupFields -> MarkupContents]

NoMarkup == [k \in MarkupFields |-> Absent]

\* what JinaFetcher.fetch returns: None on any error, else response.text
HtmlResponses ==
    {[kind |-> "none", marks |-> NoMarkup], [kind |-> "empty", marks |-> NoMarkup]}
    \cup {[kind |-> "markup", marks |-> m] : m \in Markups}

\* lines 26-41
html_to_object_defaults(html) ==
    [k \in StdKeys |->
        IF k \notin BaselineKeys THEN Absent
        ELSE IF html.kind # "markup" \/ k \notin MarkupFields THEN ""
        ELSE IF html.marks[k] = Absent THEN ""
        ELSE Unescape(Strip(html.marks[k]))]

html_to_object(html) ==
    IF html.kind # "markup"
    THEN EmptyRec
    ELSE [k \in StdKeys |->
            IF k \notin BaselineKeys THEN Absent
            ELSE IF k \notin MarkupFields THEN ""
            ELSE IF html.marks[k] = Absent THEN ""
            ELSE IF k = "about"
                 THEN Strip(Unescape(Strip(html.marks[k])))
                 ELSE Unescape(Strip(html.marks[k]))]

\* ------------------------------------------------- map_rapidapi_to_standard
\* A secondary-provider payload: nested members are named by their path
\* ("headquarter.city" is rapid_data["headquarter"].get("city")).
RapidKeys == {"name", "description", "tagline", "website", "headquarter",
              "headquarter.city", "industries", "industries[0]",
              "specialities", "founded", "founded.year", "staffCountRange",
              "staffCount", "followerCount", "universalName", "phone",
              "logos", "logos[-1].url", "locations", "crunchbaseUrl",
              "fundingData", "type"}

\* a payload in which only a few members vary; "headquarter" is either absent
\* or a string where the mapper expects an object
RapidPayload(n, d, w, r, c, h) ==
    [k \in RapidKeys |->
        CASE k = "name" -> n
          [] k = "description" -> d
          [] k = "website" -> w
          [] k = "staffCountRange" -> r
          [] k = "staffCount" -> c
          [] k = "headquarter" -> h
          [] OTHER -> Absent]

RapidPayloads ==
    {RapidPayload(n, d, w, r, c, h) :
        n \in {Absent, "Acme Corp"}, d \in {Absent, "", "We build things"},
        w \in {Absent, "acme.com"}, r \in {Absent, "11-50"},
        c \in {Absent, "int:25"}, h \in {Absent, "Berlin"}}

\* rapid_data["headquarter"].get("city") raises AttributeError when the member
\* is a non-empty value that is not an object
MapRaises(rd) == Truthy(rd["headquarter"]) /\ rd["headquarter"] # "<object>"

\* payload before the final filter (data_mapper.py lines 16-55); Absent: the
\* key was never assigned
RapidRaw(rd, k) ==
    CASE k = "name" -> Get(rd["name"])
      [] k = "about" -> Get(rd["description"])
      [] k = "headline" -> Get(rd["tagline"])
      [] k = "website" -> Get(rd["website"])
      [] k = "headquarters" ->
            IF Truthy(rd["headquarter"]) THEN Get(rd["headquarter.city"]) ELSE Absent
      [] k = "industry" ->
            IF Truthy(rd["industries"]) THEN Get(rd["industries[0]"]) ELSE Absent
      [] k = "specialties" ->
            IF Truthy(rd["specialities"]) THEN rd["specialities"] ELSE Absent
      [] k = "founded" ->
            IF Truthy(rd["founded"])
            THEN (IF Truthy(rd["founded.year"]) THEN Str(rd["founded.year"]) ELSE NoneV)
            ELSE Absent
      [] k = "company_size" -> PyOr(Get(rd["staffCountRange"]), Str(Get(rd["staffCount"])))
      [] k = "followers" ->
            IF Get(rd["followerCount"]) # NoneV THEN Str(rd["followerCount"]) ELSE NoneV
      [] k = "universalName" -> Get(rd["universalName"])
      [] k = "phone" -> Get(rd["phone"])
      [] k = "companyLogo" ->
            IF Truthy(rd["logos"]) THEN Get(rd["logos[-1].url"]) ELSE Absent
      [] k = "staffCount" -> Get(rd["staffCount"])
      [] k = "locations" -> Get(rd["locations"])
      [] k = "crunchbaseUrl" -> Get(rd["crunchbaseUrl"])
      [] k = "fundingData" -> Get(rd["fundingData"])
      [] k = "type" -> PyOr(Get(rd["type"]), NoneV)
      [] OTHER -> Absent

map_rapidapi_to_standard(rd) ==
    [k \in StdKeys |-> IF RapidRaw(rd, k) = NoneV THEN Absent ELSE RapidRaw(rd, k)]

\* ---------------------------------------------------- normalize_company_data
\* website.startswith(('http://', 'https://'))
StartsWithSchemeNever(v) == FALSE

StartsWithScheme(v) ==
    \E scheme \in {"http://", "https://"}, rest \in {"acme.com", "25"} :
        v = scheme \o rest

\* size_mappings.get(size, size), lines 104-114
size_mappings(size) ==
    CASE size = "1-10" -> "1-10 employees"
      [] size = "11-50" -> "11-50 employees"
      [] size = "51-200" -> "51-200 employees"
      [] size = "201-500" -> "201-500 employees"
      [] size = "501-1000" -> "501-1000 employees"
      [] size = "1001-5000" -> "1001-5000 employees"
      [] size = "5001-10000" -> "5001-10000 employees"
      [] size = "10000+" -> "10,001+ employees"
      [] OTHER -> size

\* re.sub(r'\s+', ' ', text): every run of whitespace becomes one space
CollapseWhitespace(text) == IF text = "Acme  Corp" THEN "Acme Corp" ELSE text

\* text_fields, line 117
TextFields == {"name", "about", "headline", "headquarters", "industry"}

normalize_company_data(data) ==
    [k \in DOMAIN data |->
        IF ~Truthy(data[k]) THEN data[k]
        ELSE CASE k = "website" ->
                    LET website == Strip(Str(data[k]))
                    IN IF website # "" /\ ~StartsWithScheme(website)
                       THEN "https://" \o website ELSE data[k]
               [] k = "company_size" -> size_mappings(Strip(Str(data[k])))
               [] k \in TextFields -> CollapseWhitespace(Strip(Str(data[k])))
               [] OTHER -> data[k]]

\* ------------------------------------------------------ map_jina_to_standard
\* standard_fields, lines 74-78
JinaStandardFields == {"name", "about", "website", "industry", "headquarters",
                       "headline", "company_size", "followers", "specialties",
                       "type", "founded", "companyLogo"}

map_jina_to_standard(jina_data) ==
    normalize_company_data(
        [k \in StdKeys |->
            IF k \in JinaStandardFields /\ Truthy(jina_data[k])
            THEN jina_data[k] ELSE Absent])

\* --------------------------------------------------- validate_extracted_data
\* number of key fields with  value and str(value).strip()
ValidFields(data) ==
    Cardinality({f \in REQUIRED_FIELDS_FOR_VALIDATION :
                    Truthy(Get(data[f])) /\ Truthy(Strip(Str(Get(data[f]))))})

\* min_required is 0 when the caller passes None (or 0): "min_required or config..."
validate_extracted_data_no_threshold(data, min_required, threshold) ==
    ValidFields(data) >= 1

validate_extracted_data(data, min_required, threshold) ==
    ValidFields(data) >= (IF min_required # 0 THEN min_required ELSE threshold)

\* ---------------------------------------------- calculate_data_quality_score
\* Scores are fixed-point numbers: Points stands for the score 1.0, so that
\* the weighted sum of line 300 is exact; processing times are milliseconds.
\* The returned scores are tenths of a point (round(score, 1)).
Points == 1000

\* round(x, 1) of a score x: to the nearest tenth, a tie to the even tenth
Round1(x) ==
    LET tenth == Points \div 10
        q == x \div tenth
        r == x % tenth
    IN IF 2 * r > tenth \/ (2 * r = tenth /\ q % 2 = 1) THEN q + 1 ELSE q

\* critical_fields, line 284
CriticalFields == {"name", "about", "website", "industry"}

\* v and str(v).strip()
Populated(v) == Truthy(Get(v)) /\ Truthy(Strip(Str(Get(v))))

\* line 287: the populated keys of the whole record
PopulatedFields(data) == Cardinality({k \in DOMAIN data : Populated(data[k])})

\* lines 308-319
Grade(overall_score) ==
    IF overall_score >= 90 * Points THEN "A+"
    ELSE IF overall_score >= 80 * Points THEN "A"
    ELSE IF overall_score >= 70 * Points THEN "B"
    ELSE IF overall_score >= 60 * Points THEN "C"
    ELSE IF overall_score >= 50 * Points THEN "D"
    ELSE "F"

\* lines 270-280: the report for "not data"; processing_time -1: no such key
NoDataQualitySpeedOnly ==
    [overall_score |-> 100, field_score |-> 0, critical_score |-> 0,
     completeness_score |-> 0, speed_score |-> 1000, populated_fields |-> 0,
     total_fields |-> 0, critical_fields |-> 0, grade |-> "F",
     processing_time |-> -1]

NoDataQuality ==
    [overall_score |-> 0, field_score |-> 0, critical_score |-> 0,
     completeness_score |-> 0, speed_score |-> 0, populated_fields |-> 0,
     total_fields |-> 0, critical_fields |-> 0, grade |-> "F",
     processing_time |-> -1]

\* data is None (isNone) or a dict; lines 264-332
calculate_data_quality_score(isNone, data, processing_time) ==
    IF isNone \/ ~TruthyDict(data) THEN NoDataQuality
    ELSE
    LET populated_fields == PopulatedFields(data)
        total_fields == Cardinality(REQUIRED_FIELDS_FOR_VALIDATION)
        critical_populated ==
            Cardinality({f \in CriticalFields : Populated(data[f])})
        field_score == IF total_fields > 0
                       THEN (populated_fields * 100 * Points) \div total_fields
                       ELSE 0
        critical_score ==
            (critical_populated * 100 * Points) \div Cardinality(CriticalFields)
        completeness_score ==
            IF total_fields > 0
            THEN (IF field_score < 100 * Points THEN field_score ELSE 100 * Points)
            ELSE 0
        slowdown == (processing_time * 10 * Points) \div 1000
        speed_score == IF processing_time > 0
                       THEN (IF slowdown < 100 * Points
                             THEN 100 * Points - slowdown ELSE 0)
                       ELSE 100 * Points
        overall_score == (3 * field_score + 4 * critical_score
                          + 2 * completeness_score + speed_score) \div 10
    IN [overall_score |-> Round1(overall_score),
        field_score |-> Round1(field_score),
        critical_score |-> Round1(critical_score),
        completeness_score |-> Round1(completeness_score),
        speed_score |-> Round1(speed_score),
        populated_fields |-> populated_fields,
        total_fields |-> total_fields,
        critical_fields |-> critical_populated,
        grade |-> Grade(overall_score),
        processing_time |-> processing_time]

\* lines 345-357: the winner of one category; the larger quantity wins
Winner(jina, rapidapi) ==
    IF jina > rapidapi THEN "jina"
    ELSE IF rapidapi > jina THEN "rapidapi" ELSE "tie"

\* lines 358-360: the faster provider wins when both times were measured
SpeedWinner(jina_time, rapidapi_time) ==
    IF jina_time < rapidapi_time /\ jina_time > 0 /\ rapidapi_time > 0 THEN "jina"
    ELSE IF rapidapi_time < jina_time /\ jina_time > 0 /\ rapidapi_time > 0
    THEN "rapidapi" ELSE "tie"

Abs(x) == IF x < 0 THEN -x ELSE x

\* line 363: more than 10 points, the scores being in tenths of a point
Significant(difference) == difference > 100

NoComparison ==
    [jina |-> NoDataQuality, rapidapi |-> NoDataQuality,
     winners |-> [overall |-> "tie", fields |-> "tie", critical |-> "tie",
                  speed |-> "tie"],
     score_difference |-> 0, significant_difference |-> FALSE]

\* compare_api_quality, lines 335-366
compare_api_quality(jina_data, rapidapi_data, jina_time, rapidapi_time) ==
    LET jina_quality == calculate_data_quality_score(FALSE, jina_data, jina_time)
        rapidapi_quality ==
            calculate_data_quality_score(FALSE, rapidapi_data, rapidapi_time)
        difference == Abs(jina_quality.overall_score - rapidapi_quality.overall_score)
    IN [jina |-> jina_quality, rapidapi |-> rapidapi_quality,
        winners |->
            [overall |-> Winner(jina_quality.overall_score,
                                rapidapi_quality.overall_score),
             fields |-> Winner(jina_quality.populated_fields,
                               rapidapi_quality.populated_fields),
             critical |-> Winner(jina_quality.critical_fields,
                                 rapidapi_quality.critical_fields),
             speed |-> SpeedWinner(jina_time, rapidapi_time)],
        score_difference |-> difference,
        significant_difference |-> Significant(difference)]

\* ------------------------------------- processor.py: _generate_field_comparison
\* what _test_jina_only and _test_rapidapi_only return, as far as the
\* comparison reads it: success, data (None unless success) and total_time in
\* milliseconds, -1 when the key is missing (the fetch failed or raised)
TestReport(success, data, total_time) ==
    [success |-> success, data |-> data, total_time |-> total_time]

\* the shapes a provider test can end in
TestShapes == {"fetch_failed", "no_data", "ok"}

TestReportOf(shape, data, t) ==
    CASE shape = "fetch_failed" -> TestReport(FALSE, EmptyRec, -1)
      [] shape = "no_data" -> TestReport(FALSE, EmptyRec, t)
      [] OTHER -> TestReport(TRUE, data, t)

\* line 430
ComparedFields ==
    {"name", "about", "website", "industry", "headquarters", "headline",
     "company_size", "followers", "specialties"}

\* lines 432-443: which provider has a value for the field
FieldComparison(jina_value, rapidapi_value) ==
    IF Truthy(jina_value) /\ Truthy(rapidapi_value) THEN "both_have_data"
    ELSE IF Truthy(jina_value) THEN "only_jina"
    ELSE IF Truthy(rapidapi_value) THEN "only_rapidapi" ELSE "neither"

\* result.get("total_time", default)
TotalTime(report, default) ==
    IF report.total_time = -1 THEN default ELSE report.total_time

\* line 455: total_time defaults to 999 seconds
UnmeasuredTime == 999000

\* line 455 as written: the secondary wins unless the primary is faster
winner_by_speed(jina_test, rapidapi_test) ==
    IF TotalTime(jina_test, UnmeasuredTime) < TotalTime(rapidapi_test, UnmeasuredTime)
    THEN "jina" ELSE "rapidapi"

NoSummary ==
    [winner |-> Absent, jina_fields_count |-> -1, rapidapi_fields_count |-> -1,
     jina_time |-> -1, rapidapi_time |-> -1, winner_by_fields |-> Absent,
     winner_by_speed |-> Absent]

NoFieldComparison ==
    [jina_success |-> FALSE, rapidapi_success |-> FALSE,
     field_comparison |-> [f \in ComparedFields |-> Absent],
     summary |-> NoSummary]

\* _generate_field_comparison, lines 413-458
_generate_field_comparison(jina_test, rapidapi_test) ==
    IF ~jina_test.success /\ ~rapidapi_test.success
    THEN [NoFieldComparison EXCEPT !.summary.winner = "both_failed"]
    ELSE
    LET jina_data == jina_test.data
        rapidapi_data == rapidapi_test.data
        jina_fields == PopulatedFields(jina_data)
        rapidapi_fields == PopulatedFields(rapidapi_data)
    IN [jina_success |-> jina_test.success,
        rapidapi_success |-> rapidapi_test.success,
        field_comparison |->
            [f \in ComparedFields |->
                FieldComparison(jina_data[f], rapidapi_data[f])],
        summary |->
            [NoSummary EXCEPT
                !.jina_fields_count = jina_fields,
                !.rapidapi_fields_count = rapidapi_fields,
                !.jina_time = TotalTime(jina_test, 0),
                !.rapidapi_time = TotalTime(rapidapi_test, 0),
                !.winner_by_fields = Winner(jina_fields, rapidapi_fields),
                !.winner_by_speed = winner_by_speed(jina_test, rapidapi_test)]]

\* ---------------------------------------------------- add_processing_metadata
\* config.WORKER_ID is read while the metadata dict is built; a Config without
\* that attribute makes the call raise AttributeError.
MetadataRaises(c) == ~c.WORKER_ID

MetadataValue(method, k) ==
    CASE k = "platform" -> "linkedin"
      [] k \in {"scrapped", "extracted"} -> PyTrue
      [] k = "processed_via" -> method
      [] k \in {"extractedAt", "scrappedAt", "processedAt"} -> Now
      [] k = "websiteMarkdownStatus" -> "not_attempted"
      [] k = "processor_version" -> "new_company_processor_v1"
      [] k = "worker_id" -> "worker-1"
      [] k = "extraction_method" ->
            (IF method = "jina" THEN "html_parsing"
             ELSE IF method = "rapidapi" THEN "api_direct" ELSE Absent)
      [] OTHER -> Absent

add_processing_metadata(data, method, original_url) ==
    LET merged == [k \in StdKeys |->
                     IF k \in MetadataKeys \ {"url"} /\ MetadataValue(method, k) # Absent
                     THEN MetadataValue(method, k) ELSE data[k]]
        withUrl == IF Truthy(original_url)
                   THEN [merged EXCEPT !["url"] = original_url] ELSE merged
    IN [k \in StdKeys |-> IF withUrl[k] = NoneV THEN Absent ELSE withUrl[k]]

\* ------------------------------------------------------------- services.py
\* outcome of the REST call made by a CompanyDataService method
ApiOutcomes == {"raise", "fail", "ok"}
MarkOutcomes == {"raise", "ok"}
NodeOutcomes == {"raise", "updated:0", "updated:2"}

\* a webpage document as the API may return it
LinkedInUrl == "https://www.linkedin.com/company/acme/"
OtherUrl == "https://example.com/acme"
NonTextUrl == "int:25"
NoWebpage == [kind |-> "none", url |-> Absent]
Webpages ==
    {NoWebpage, [kind |-> "emptydict", url |-> Absent],
     [kind |-> "nondict", url |-> Absent], [kind |-> "dict", url |-> Absent],
     [kind |-> "dict", url |-> ""], [kind |-> "dict", url |-> LinkedInUrl],
     [kind |-> "dict", url |-> OtherUrl], [kind |-> "dict", url |-> NonTextUrl]}

GetOutcomes == {[kind |-> "raise", data |-> NoWebpage],
                [kind |-> "fail", data |-> NoWebpage]}
               \cup {[kind |-> "data", data |-> w] : w \in Webpages}

\* each method reports whether it raised and what it returned
fetch_webpage(o) ==
    [raised |-> FALSE, value |-> IF o.kind = "data" THEN o.data ELSE NoWebpage]

update_webpage(o) == [raised |-> FALSE, value |-> (o = "ok")]

mark_webpage_failed_propagates(o) == [raised |-> (o = "raise"), value |-> (o = "ok")]

mark_webpage_failed(o) == [raised |-> FALSE, value |-> (o = "ok")]

update_nodes_with_company_data(o) ==
    [raised |-> FALSE, value |-> IF o = "updated:2" THEN 2 ELSE 0]

cleanup_failed_webpage(o) == [raised |-> FALSE, value |-> (o = "ok")]

\* One entry of the log of collaborator calls of the current invocation:
\* the operation, the error type or record passed, what the REST call did
\* (api) and a summary of what the call returned (ret).
Call(op, etype, data, api, ret) ==
    [op |-> op, etype |-> etype, data |-> data, api |-> api, ret |-> ret]

MarkCall(etype, o) ==
    Call("mark_webpage_failed", etype, EmptyRec,
         o, IF mark_webpage_failed(o).value THEN "True" ELSE "False")

\* ------------------------------------------------------ processor.py results
NoResult ==
    [success |-> FALSE, via |-> Absent, webpageId |-> Absent, nodesUpdated |-> -1,
     fieldsExtracted |-> -1, error |-> Absent, errorType |-> Absent,
     jinaError |-> Absent, rapidapiError |-> Absent]

_success_result_without_via(webpage_id, via, nodes_updated, fields_extracted) ==
    [NoResult EXCEPT !.success = TRUE, !.webpageId = webpage_id,
                     !.nodesUpdated = nodes_updated,
                     !.fieldsExtracted = fields_extracted]

_success_result(webpage_id, via, nodes_updated, fields_extracted) ==
    [NoResult EXCEPT !.success = TRUE, !.via = via, !.webpageId = webpage_id,
                     !.nodesUpdated = nodes_updated,
                     !.fieldsExtracted = fields_extracted]

_failure_result_without_extra(webpage_id, error, error_type, jinaError, rapidapiError) ==
    [NoResult EXCEPT !.webpageId = webpage_id, !.error = error,
                     !.errorType = IF Truthy(error_type) THEN error_type ELSE Absent]

_failure_result(webpage_id, error, error_type, jinaError, rapidapiError) ==
    [NoResult EXCEPT !.webpageId = webpage_id, !.error = error,
                     !.errorType = IF Truthy(error_type) THEN error_type ELSE Absent,
                     !.jinaError = jinaError, !.rapidapiError = rapidapiError]

\* len([k for k, v in data.items() if v])
FieldsExtractedAllKeys(data) == Cardinality({k \in DOMAIN data : data[k] # Absent})

FieldsExtracted(data) == Cardinality({k \in DOMAIN data : Truthy(data[k])})

\* --------------------------------------------------- exception propagation
\* An outcome of a piece of process_webpage: the calls made, and either the
\* result a provider path returned ("jina", "rapid"), the result
\* process_webpage returned ("final"), or an exception leaving process_webpage
\* ("escaped").
Outcome(kind, cs, res) == [kind |-> kind, calls |-> cs, res |-> res]

\* process_webpage, lines 126-132: the top-level handler
TopExceptSilent(wid, cs, o) ==
    Outcome("final", cs,
            _failure_result(wid, "Unexpected error processing webpage",
                            "processing_error", Absent, Absent))

TopExceptUnlabelled(wid, cs, o) ==
    LET m == mark_webpage_failed(o)
        cs1 == Append(cs, MarkCall("processing_error", o))
    IN IF m.raised
       THEN Outcome("escaped", cs1, NoResult)
       ELSE Outcome("final", cs1,
                    _failure_result(wid, "Unexpected error processing webpage",
                                    "", Absent, Absent))

TopExcept(wid, cs, o) ==
    LET m == mark_webpage_failed(o)
        cs1 == Append(cs, MarkCall("processing_error", o))
    IN IF m.raised
       THEN Outcome("escaped", cs1, NoResult)
       ELSE Outcome("final", cs1,
                    _failure_result(wid, "Unexpected error processing webpage",
                                    "processing_error", Absent, Absent))

\* process_with_jina lines 186-190, process_with_rapidapi lines 244-248
PathExcept(path, wid, cs, o2, o3) ==
    LET etype == IF path = "jina" THEN "jina_processing_error"
                 ELSE "rapidapi_processing_error"
        msg == IF path = "jina" THEN "Jina processing error for webpage"
               ELSE "RapidAPI processing error for webpage"
        m == mark_webpage_failed(o2)
        cs1 == Append(cs, MarkCall(etype, o2))
    IN IF m.raised
       THEN TopExcept(wid, cs1, o3)
       ELSE Outcome(path, cs1, _failure_result(wid, msg, etype, Absent, Absent))

\* a failing step of a provider path: mark the webpage failed, return a failure
PathFail(path, wid, cs, marked, error, etype, o1, o2, o3) ==
    LET m == mark_webpage_failed(o1)
        cs1 == Append(cs, MarkCall(marked, o1))
    IN IF m.raised
       THEN PathExcept(path, wid, cs1, o2, o3)
       ELSE Outcome(path, cs1, _failure_result(wid, error, etype, Absent, Absent))

\* the response of lambda_handler; kind "raised": an exception left the
\* handler, origin names the call it came from
NoBody ==
    [webpageId |-> Absent, nodeId |-> Absent, userId |-> Absent, success |-> FALSE,
     via |-> Absent, nodesUpdated |-> -1, fieldsExtracted |-> -1,
     message |-> Absent, error |-> Absent, errorType |-> Absent,
     jinaError |-> Absent, rapidapiError |-> Absent]

NoResponse == [kind |-> "none", origin |-> "", statusCode |-> 0, body |-> NoBody]

Raised(origin) == [NoResponse EXCEPT !.kind = "raised", !.origin = origin]

\* process_webpage lines 96-97: the fallback is tried when a fetcher exists
FallbackAlways(proc) == TRUE

FallbackConfigured(proc) == proc.rapidapi_fetcher

\* process_webpage lines 98-105: after a failed fallback path the both-failed
\* handling follows; the fallback is not tried again
AfterFallbackFailedRetry == "rapid_fetch"

AfterFallbackFailed == "both_failed"

\* process_webpage lines 90-103 and the return to lambda_handler: what happens
\* with the outcome of a step
Settle(o) ==
    /\ calls' = o.calls
    /\ CASE o.kind = "escaped" ->
              /\ pc' = "idle"
              /\ response' = Raised("process_webpage")
              /\ UNCHANGED <<result, jina_result, rapidapi_result>>
         [] o.kind = "final" ->
              /\ pc' = "respond"
              /\ result' = o.res
              /\ UNCHANGED <<response, jina_result, rapidapi_result>>
         [] o.kind = "jina" ->
              /\ jina_result' = o.res
              /\ UNCHANGED response
              /\ IF o.res.success
                 THEN pc' = "respond" /\ result' = o.res /\ UNCHANGED rapidapi_result
                 ELSE IF FallbackConfigured(processor)
                 THEN pc' = "rapid_fetch" /\ UNCHANGED <<result, rapidapi_result>>
                 ELSE /\ pc' = "both_failed"
                      /\ rapidapi_result' =
                            [NoResult EXCEPT !.error = "rapidapi_key_not_configured"]
                      /\ UNCHANGED result
         [] o.kind = "rapid" ->
              /\ rapidapi_result' = o.res
              /\ UNCHANGED <<response, jina_result>>
              /\ IF o.res.success
                 THEN pc' = "respond" /\ result' = o.res
                 ELSE pc' = AfterFallbackFailed /\ UNCHANGED result

\* ------------------------------------------------------------ configuration
\* config/settings.py.  REQUEST_TIMEOUT (with SLEEP_BETWEEN_REQUESTS) and
\* WORKER_ID are attributes that external_apis.py and data_mapper.py read and
\* that Config.__init__ does not set: FALSE is the Config of settings.py, TRUE a
\* config object that carries the attribute.  VALID: Config.validate() passes.
Configs ==
    [RAPIDAPI_KEY : BOOLEAN, CLEANUP_ON_FAILURE : BOOLEAN, WORKER_ID : BOOLEAN,
     REQUEST_TIMEOUT : BOOLEAN, VALID : BOOLEAN,
     MIN_POPULATED_FIELDS_THRESHOLD : {DefaultMinPopulated}]

\* ---------------------------------------------------------- lambda_handler.py
NoPayload == [webpageId |-> NoneV, nodeId |-> NoneV, userId |-> NoneV]

Fields(w, n, u) == [webpageId |-> w, nodeId |-> n, userId |-> u]

\* the invocation events: top-level keys and a body; action is the "action"
\* key of the mapping the payload is taken from
Events ==
    {[top |-> Fields(w, "node-1", "user-1"), body |-> b, action |-> a] :
        w \in {Absent, "", "wp-1"}, a \in {Absent, "compare"},
        b \in {[kind |-> "absent", fields |-> Fields(Absent, Absent, Absent)],
               [kind |-> "badjson", fields |-> Fields(Absent, Absent, Absent)],
               [kind |-> "emptydict", fields |-> Fields(Absent, Absent, Absent)],
               [kind |-> "dict", fields |-> Fields("wp-2", Absent, "user-2")],
               [kind |-> "dict", fields |-> Fields(Absent, "node-2", Absent)]}}

_extract_payload(ev) == IF ev.body.kind = "dict" THEN ev.body.fields ELSE ev.top

\* lambda_handler line 51
Action(ev) == PyOr(Get(ev.action), "process")

\* lambda_handler line 71
IsCompare(a) == a \in {"compare", "compareapis", "compare_apis"}

\* the first step of the operation the handler dispatches to
FirstStep(a) == IF IsCompare(a) THEN "compare_fetch" ELSE "fetch_webpage"

\* lambda_handler line 56
MissingOnlyWhenNone(webpage_id) == webpage_id = NoneV

MissingWebpageId(webpage_id) == ~Truthy(webpage_id)

\* lambda_handler lines 58-67
BadRequest(webpage_id, node_id, user_id) ==
    [kind |-> "returned", origin |-> "", statusCode |-> 400,
     body |-> [NoBody EXCEPT !.error = "webpageId required",
                              !.webpageId = webpage_id,
                              !.nodeId = node_id,
                              !.userId = user_id]]

\* the module-level _processor: unset, or an instance holding the secondary
\* fetcher when a RapidAPI key is configured; instance numbers the
\* constructions, so that two instances are told apart
NoProcessor == [exists |-> FALSE, rapidapi_fetcher |-> FALSE, instance |-> 0]

\* _get_processor line 23: "if _processor is None" fails
CachedNever(p) == FALSE

Cached(p) == p.exists

\* NewCompanyProcessor.__init__: the fetcher constructors read
\* config.REQUEST_TIMEOUT
ConstructionRaises(c) == ~c.REQUEST_TIMEOUT

NewCompanyProcessor(c) ==
    [exists |-> TRUE, rapidapi_fetcher |-> c.RAPIDAPI_KEY, instance |-> 1]

\* ------------------------------------------------- calls of pure functions
\* the arguments of a call: kind tells which of data (a dict), html (what the
\* primary fetch returned) and rapid_data (a secondary payload) is the input;
\* kind "none": the value None is passed as data.  min_required -1: the
\* argument is left out (None).  processing_time is in milliseconds.
NoArgs ==
    [kind |-> "none", data |-> EmptyRec, html |-> [kind |-> "none", marks |-> NoMarkup],
     rapid_data |-> [k \in RapidKeys |-> Absent],
     min_required |-> -1, processing_time |-> 0,
     other_data |-> EmptyRec, other_time |-> 0,
     shape |-> "ok", other_shape |-> "ok"]

\* what a call returned: raised, or the boolean, the record, the quality
\* report or the comparison of the function applied
NoReturn ==
    [raised |-> FALSE, valid |-> FALSE, record |-> EmptyRec,
     quality |-> NoDataQuality, comparison |-> NoComparison,
     field_comparison |-> NoFieldComparison]

Init ==
    /\ action = "process"
    /\ fn = "none"
    /\ args = NoArgs
    /\ returned = NoReturn
    /\ cfg \in Configs
    /\ processor = NoProcessor
    /\ invocations = 0
    /\ pc = "idle"
    /\ payload = NoPayload
    /\ url = Absent
    /\ extracted_data = EmptyRec
    /\ update_data = EmptyRec
    /\ jina_result = NoResult
    /\ rapidapi_result = NoResult
    /\ result = NoResult
    /\ response = NoResponse
    /\ calls = <<>>

\* lambda_handler lines 48-69 with _get_processor: a new invocation starts
LambdaInvoke ==
    /\ pc = "idle"
    /\ invocations < MaxInvocations
    /\ invocations' = invocations + 1
    /\ \E ev \in Events :
         LET p == _extract_payload(ev)
             webpage_id == Get(p.webpageId)
             node_id == Get(p.nodeId)
             user_id == Get(p.userId)
         IN /\ payload' = Fields(webpage_id, node_id, user_id)
            /\ action' = Action(ev)
            /\ IF MissingWebpageId(webpage_id)
               THEN /\ response' = BadRequest(webpage_id, node_id, user_id)
                    /\ pc' = "idle"
                    /\ UNCHANGED processor
               ELSE IF Cached(processor)
               THEN /\ response' = NoResponse
                    /\ pc' = FirstStep(Action(ev))
                    /\ UNCHANGED processor
               ELSE IF ~cfg.VALID \/ ConstructionRaises(cfg)
               THEN /\ response' = Raised("_get_processor")
                    /\ pc' = "idle"
                    /\ UNCHANGED processor
               ELSE /\ response' = NoResponse
                    /\ pc' = FirstStep(Action(ev))
                    /\ processor' = [NewCompanyProcessor(cfg) EXCEPT
                                         !.instance = processor.instance + 1]
    /\ url' = Absent
    /\ extracted_data' = EmptyRec
    /\ update_data' = EmptyRec
    /\ jina_result' = NoResult
    /\ rapidapi_result' = NoResult
    /\ result' = NoResult
    /\ calls' = <<>>
    /\ UNCHANGED <<pureVars, cfg>>

\* process_webpage line 75, "if not webpage"
WebpageMissing(webpage) == webpage.kind \in {"none", "emptydict"}

\* process_webpage lines 80-81, "if not url"
UrlNeverMissing(webpage) == FALSE

UrlMissing(webpage) == ~Truthy(Get(webpage.url))

\* summary of a looked-up webpage for the call log
WebpageSummary(webpage) ==
    IF webpage.kind = "dict"
    THEN (IF Truthy(Get(webpage.url)) THEN "dict:url" ELSE "dict:nourl")
    ELSE webpage.kind

\* process_webpage lines 70-87: look the webpage up, check the preconditions
FetchWebpage ==
    /\ pc = "fetch_webpage"
    /\ \E g \in GetOutcomes, o1, o3 \in MarkOutcomes :
         LET wid == payload.webpageId
             webpage == fetch_webpage(g).value
             cs0 == Append(calls, Call("fetch_webpage", "", EmptyRec, g.kind,
                                       WebpageSummary(webpage)))
             m == mark_webpage_failed(o1)
             cs1 == Append(cs0, MarkCall("missing_url", o1))
         IN IF WebpageMissing(webpage)
            THEN Settle(Outcome("final", cs0,
                     _failure_result(wid, "Webpage not found", "webpage_not_found",
                                     Absent, Absent))) /\ UNCHANGED url
            ELSE IF webpage.kind = "nondict"
            THEN Settle(TopExcept(wid, cs0, o3)) /\ UNCHANGED url
            ELSE IF UrlMissing(webpage)
            THEN /\ IF m.raised
                    THEN Settle(TopExcept(wid, cs1, o3))
                    ELSE Settle(Outcome("final", cs1,
                             _failure_result(wid, "No URL found for webpage",
                                             "missing_url", Absent, Absent)))
                 /\ UNCHANGED url
            ELSE /\ url' = webpage.url
                 /\ pc' = "jina_fetch"
                 /\ calls' = cs0
                 /\ UNCHANGED <<result, jina_result, rapidapi_result, response>>
    /\ UNCHANGED <<pureVars, action, cfg, processor, invocations, payload, extracted_data, update_data>>

\* summary of what the primary fetch returned, for the call log
HtmlSummary(html, c) ==
    IF html.kind # "markup" THEN "None"
    ELSE IF validate_extracted_data(html_to_object(html), 0,
                                    c.MIN_POPULATED_FIELDS_THRESHOLD)
    THEN "markup:valid" ELSE "markup:invalid"

\* process_with_jina lines 136-167: fetch, parse, validate, add the metadata
JinaFetch ==
    /\ pc = "jina_fetch"
    /\ \E html \in HtmlResponses, o1, o2, o3 \in MarkOutcomes :
         LET wid == payload.webpageId
             cs0 == Append(calls, Call("jina_fetch", "", EmptyRec, "",
                                       HtmlSummary(html, cfg)))
             ed == html_to_object(html)
         IN IF html.kind # "markup"
            THEN /\ Settle(PathFail("jina", wid, cs0, "jina_fetch_failed",
                                    "jina_fetch_failed", "jina_fetch_failed",
                                    o1, o2, o3))
                 /\ UNCHANGED <<extracted_data, update_data>>
            ELSE IF ~TruthyDict(ed)
            THEN /\ Settle(PathFail("jina", wid, cs0, "html_parsing_failed",
                                    "html_parsing_failed", "html_parsing_failed",
                                    o1, o2, o3))
                 /\ UNCHANGED <<extracted_data, update_data>>
            ELSE IF ~validate_extracted_data(ed, 0, cfg.MIN_POPULATED_FIELDS_THRESHOLD)
            THEN /\ Settle(PathFail("jina", wid, cs0, "data_validation_failed",
                                    "data_validation_failed",
                                    "data_validation_failed", o1, o2, o3))
                 /\ UNCHANGED <<extracted_data, update_data>>
            ELSE IF MetadataRaises(cfg)
            THEN /\ Settle(PathExcept("jina", wid, cs0, o2, o3))
                 /\ UNCHANGED <<extracted_data, update_data>>
            ELSE /\ extracted_data' = ed
                 /\ update_data' = add_processing_metadata(ed, "jina", url)
                 /\ pc' = "jina_update"
                 /\ calls' = cs0
                 /\ UNCHANGED <<result, jina_result, rapidapi_result, response>>
    /\ UNCHANGED <<pureVars, action, cfg, processor, invocations, payload, url>>

\* RapidAPIFetcher.fetch: extract_linkedin_username raises TypeError on a URL
\* that is not text; the result is None unless the URL names a LinkedIn
\* identifier and the provider answers with a non-empty data object
RapidFetchRaises(u) == u = NonTextUrl

RapidFetched(u, rd) == u = LinkedInUrl /\ TruthyDict(rd)

\* summary of what the secondary fetch returned, for the call log
RapidSummary(u, rd) ==
    IF RapidFetchRaises(u) THEN "raised"
    ELSE IF ~RapidFetched(u, rd) THEN "None"
    ELSE IF /\ Truthy(rd["name"]) /\ Truthy(rd["description"])
            /\ Truthy(rd["website"]) /\ ~MapRaises(rd)
    THEN "payload:name,description,website" ELSE "payload"

\* process_with_rapidapi lines 194-225: fetch, map, validate, add the metadata
RapidFetch ==
    /\ pc = "rapid_fetch"
    /\ \E rd \in RapidPayloads, o1, o2, o3 \in MarkOutcomes :
         LET wid == payload.webpageId
             cs0 == Append(calls, Call("rapidapi_fetch", "", EmptyRec, "",
                                       RapidSummary(url, rd)))
             md == map_rapidapi_to_standard(rd)
         IN IF RapidFetchRaises(url)
            THEN /\ Settle(PathExcept("rapid", wid, cs0, o2, o3))
                 /\ UNCHANGED <<extracted_data, update_data>>
            ELSE IF ~RapidFetched(url, rd)
            THEN /\ Settle(PathFail("rapid", wid, cs0, "rapidapi_failed_api",
                                    "rapidapi_fetch_failed", "rapidapi_fetch_failed",
                                    o1, o2, o3))
                 /\ UNCHANGED <<extracted_data, update_data>>
            ELSE IF MapRaises(rd)
            THEN /\ Settle(PathFail("rapid", wid, cs0, "rapidapi_mapping_error",
                                    "data_mapping_error: AttributeError",
                                    "rapidapi_mapping_error", o1, o2, o3))
                 /\ UNCHANGED <<extracted_data, update_data>>
            ELSE IF ~TruthyDict(md)
            THEN /\ Settle(PathFail("rapid", wid, cs0, "data_mapping_failed",
                                    "data_mapping_failed", "data_mapping_failed",
                                    o1, o2, o3))
                 /\ UNCHANGED <<extracted_data, update_data>>
            ELSE IF ~validate_extracted_data(md, 0, cfg.MIN_POPULATED_FIELDS_THRESHOLD)
            THEN /\ Settle(PathFail("rapid", wid, cs0, "data_validation_failed",
                                    "data_validation_failed",
                                    "data_validation_failed", o1, o2, o3))
                 /\ UNCHANGED <<extracted_data, update_data>>
            ELSE IF MetadataRaises(cfg)
            THEN /\ Settle(PathExcept("rapid", wid, cs0, o2, o3))
                 /\ UNCHANGED <<extracted_data, update_data>>
            ELSE /\ extracted_data' = md
                 /\ update_data' = add_processing_metadata(md, "rapidapi", url)
                 /\ pc' = "rapid_update"
                 /\ calls' = cs0
                 /\ UNCHANGED <<result, jina_result, rapidapi_result, response>>
    /\ UNCHANGED <<pureVars, action, cfg, processor, invocations, payload, url>>

\* lines 169-173 and 227-231: persist the record
PathUpdate(path) ==
    /\ pc = path \o "_update"
    /\ \E o \in ApiOutcomes, o1, o2, o3 \in MarkOutcomes :
         LET wid == payload.webpageId
             u == update_webpage(o)
             cs0 == Append(calls, Call("update_webpage", "", update_data, o,
                                       IF u.value THEN "True" ELSE "False"))
         IN IF u.raised
            THEN Settle(PathExcept(path, wid, cs0, o2, o3))
            ELSE IF ~u.value
            THEN Settle(PathFail(path, wid, cs0, "database_update_failed",
                                 "database_update_failed", "database_update_failed",
                                 o1, o2, o3))
            ELSE /\ pc' = path \o "_nodes"
                 /\ calls' = cs0
                 /\ UNCHANGED <<result, jina_result, rapidapi_result, response>>
    /\ UNCHANGED <<pureVars, action, cfg, processor, invocations, payload, url, extracted_data,
                   update_data>>

\* lines 175-184 and 233-242: propagate to the nodes, return the success result
PathNodes(path) ==
    /\ pc = path \o "_nodes"
    /\ \E o \in NodeOutcomes, o2, o3 \in MarkOutcomes :
         LET wid == payload.webpageId
             n == update_nodes_with_company_data(o)
             cs0 == Append(calls, Call("update_nodes_with_company_data", "",
                                       extracted_data, o,
                                       IF n.value = 2 THEN "2" ELSE "0"))
         IN IF n.raised
            THEN Settle(PathExcept(path, wid, cs0, o2, o3))
            ELSE Settle(Outcome(path, cs0,
                     _success_result(wid, IF path = "jina" THEN "jina" ELSE "rapidapi",
                                     n.value, FieldsExtracted(extracted_data))))
    /\ UNCHANGED <<pureVars, action, cfg, processor, invocations, payload, url, extracted_data,
                   update_data>>

JinaUpdate == PathUpdate("jina")

JinaNodes == PathNodes("jina")

RapidUpdate == PathUpdate("rapid")

RapidNodes == PathNodes("rapid")

\* process_webpage line 110
CleanupInverted(c) == ~c.CLEANUP_ON_FAILURE

CleanupChosen(c) == c.CLEANUP_ON_FAILURE

\* process_webpage lines 105-124: both providers failed
BothFailed ==
    /\ pc = "both_failed"
    /\ \E o, o3 \in MarkOutcomes :
         LET wid == payload.webpageId
             c == IF CleanupChosen(cfg)
                  THEN cleanup_failed_webpage(o) ELSE mark_webpage_failed(o)
             cs0 == Append(calls,
                      IF CleanupChosen(cfg)
                      THEN Call("cleanup_failed_webpage", "", EmptyRec, o,
                                IF c.value THEN "True" ELSE "False")
                      ELSE MarkCall("both_apis_failed", o))
         IN IF c.raised
            THEN Settle(TopExcept(wid, cs0, o3))
            ELSE Settle(Outcome("final", cs0,
                     _failure_result(wid, "both_apis_failed", "both_apis_failed",
                                     Get(jina_result.error),
                                     Get(rapidapi_result.error))))
    /\ UNCHANGED <<pureVars, action, cfg, processor, invocations, payload, url, extracted_data,
                   update_data>>

\* lambda_handler line 109
StatusAlways200(success) == 200

StatusCode(success) == IF success THEN 200 ELSE 500

\* lambda_handler lines 82-113: build the response from the result
Respond ==
    /\ pc = "respond"
    /\ LET success == result.success
           base == [NoBody EXCEPT
                      !.webpageId = payload.webpageId,
                      !.nodeId = payload.nodeId,
                      !.userId = payload.userId,
                      !.success = success,
                      !.via = Get(result.via),
                      !.nodesUpdated = IF result.nodesUpdated = -1 THEN 0
                                       ELSE result.nodesUpdated,
                      !.fieldsExtracted = result.fieldsExtracted]
           body == IF success
                   THEN [base EXCEPT !.message = "Company processed successfully"]
                   ELSE [base EXCEPT
                           !.error = IF result.error = Absent THEN "processing_failed"
                                     ELSE result.error,
                           !.errorType = Get(result.errorType),
                           !.jinaError = PyOr(Get(result.jinaError), NoneV),
                           !.rapidapiError = PyOr(Get(result.rapidapiError), NoneV)]
       IN response' = [kind |-> "returned", origin |-> "",
                       statusCode |-> StatusCode(success), body |-> body]
    /\ pc' = "idle"
    /\ UNCHANGED <<pureVars, action, cfg, processor, invocations, payload, url, extracted_data,
                   update_data, jina_result, rapidapi_result, result, calls>>

\* a failure that compare_apis_for_webpage returns: no backend call is made
\* (lines 261-273, 292)
CompareFailureMarked(wid, cs, error, etype, o) ==
    Outcome("final", Append(cs, MarkCall(etype, o)),
            _failure_result(wid, error, etype, Absent, Absent))

CompareFailure(wid, cs, error, etype, o) ==
    Outcome("final", cs, _failure_result(wid, error, etype, Absent, Absent))

\* compare_apis_for_webpage lines 255-273 and 289-292: look the webpage up,
\* check the preconditions
CompareFetchWebpage ==
    /\ pc = "compare_fetch"
    /\ \E g \in GetOutcomes, o \in MarkOutcomes :
         LET wid == payload.webpageId
             webpage == fetch_webpage(g).value
             cs0 == Append(calls, Call("fetch_webpage", "", EmptyRec, g.kind,
                                       WebpageSummary(webpage)))
             failed(error, etype) == CompareFailure(wid, cs0, error, etype, o)
         IN IF WebpageMissing(webpage) \/ webpage.kind = "nondict"
                                        \/ UrlMissing(webpage)
            THEN LET f == IF WebpageMissing(webpage)
                          THEN failed("Webpage not found", "webpage_not_found")
                          ELSE IF webpage.kind = "nondict"
                          THEN failed("API comparison error", "comparison_error")
                          ELSE failed("No URL found for webpage", "missing_url")
                 IN /\ calls' = f.calls
                    /\ result' = f.res
                    /\ pc' = "compare_respond"
                    /\ UNCHANGED url
            ELSE /\ url' = webpage.url
                 /\ pc' = "compare_jina"
                 /\ calls' = cs0
                 /\ UNCHANGED result
    /\ UNCHANGED <<pureVars, action, cfg, processor, invocations, payload,
                   extracted_data, update_data, jina_result, rapidapi_result,
                   response>>

\* the report of _test_jina_only and _test_rapidapi_only: success or an error
TestResult(success, error) ==
    [NoResult EXCEPT !.success = success, !.error = error]

\* _test_jina_only, lines 294-347
CompareJina ==
    /\ pc = "compare_jina"
    /\ \E html \in HtmlResponses :
         LET ed == html_to_object(html)
         IN /\ calls' = Append(calls, Call("jina_fetch", "", EmptyRec, "",
                                           HtmlSummary(html, cfg)))
            /\ jina_result' =
                  IF html.kind # "markup"
                  THEN TestResult(FALSE, "Failed to fetch HTML from Jina API")
                  ELSE IF ~TruthyDict(ed)
                  THEN TestResult(FALSE, "HTML parsing returned no data")
                  ELSE TestResult(TRUE, Absent)
    /\ pc' = "compare_rapid"
    /\ UNCHANGED <<pureVars, action, cfg, processor, invocations, payload, url,
                   extracted_data, update_data, rapidapi_result, result, response>>

\* _test_rapidapi_only, lines 349-411, and the return of
\* compare_apis_for_webpage, lines 279-287
CompareRapid ==
    /\ pc = "compare_rapid"
    /\ \E rd \in RapidPayloads :
         LET cs0 == Append(calls, Call("rapidapi_fetch", "", EmptyRec, "",
                                       RapidSummary(url, rd)))
             md == map_rapidapi_to_standard(rd)
         IN IF ~processor.rapidapi_fetcher
            THEN /\ rapidapi_result' = TestResult(FALSE, "RapidAPI not configured")
                 /\ UNCHANGED calls
            ELSE /\ calls' = cs0
                 /\ rapidapi_result' =
                       IF RapidFetchRaises(url) \/ (RapidFetched(url, rd) /\ MapRaises(rd))
                       THEN TestResult(FALSE, "RapidAPI processing error")
                       ELSE IF ~RapidFetched(url, rd)
                       THEN TestResult(FALSE, "RapidAPI returned no data")
                       ELSE IF ~TruthyDict(md)
                       THEN TestResult(FALSE, "RapidAPI data mapping failed")
                       ELSE TestResult(TRUE, Absent)
    /\ result' = [NoResult EXCEPT !.success = TRUE, !.webpageId = payload.webpageId]
    /\ pc' = "compare_respond"
    /\ UNCHANGED <<pureVars, action, cfg, processor, invocations, payload, url,
                   extracted_data, update_data, jina_result, response>>

\* lambda_handler lines 73-78: the result of the comparison is the body
CompareRespondForgetsFetcher ==
    /\ pc = "compare_respond"
    /\ response' =
          [kind |-> "returned", origin |-> "", statusCode |-> StatusCode(result.success),
           body |-> [NoBody EXCEPT !.webpageId = result.webpageId,
                                    !.success = result.success,
                                    !.error = result.error,
                                    !.errorType = result.errorType]]
    /\ pc' = "idle"
    /\ processor' = [processor EXCEPT !.rapidapi_fetcher = FALSE]
    /\ UNCHANGED <<pureVars, action, cfg, invocations, payload, url,
                   extracted_data, update_data, jina_result, rapidapi_result,
                   result, calls>>

CompareRespond ==
    /\ pc = "compare_respond"
    /\ response' =
          [kind |-> "returned", origin |-> "", statusCode |-> StatusCode(result.success),
           body |-> [NoBody EXCEPT !.webpageId = result.webpageId,
                                    !.success = result.success,
                                    !.error = result.error,
                                    !.errorType = result.errorType]]
    /\ pc' = "idle"
    /\ UNCHANGED <<pureVars, action, cfg, processor, invocations, payload, url,
                   extracted_data, update_data, jina_result, rapidapi_result,
                   result, calls>>

Next ==
    \/ LambdaInvoke
    \/ FetchWebpage
    \/ JinaFetch
    \/ JinaUpdate
    \/ JinaNodes
    \/ RapidFetch
    \/ RapidUpdate
    \/ RapidNodes
    \/ BothFailed
    \/ Respond
    \/ CompareFetchWebpage
    \/ CompareJina
    \/ CompareRapid
    \/ CompareRespond

Spec == Init /\ [][Next]_vars

\* the steps of an invocation that has started: the handler runs them one
\* after the other, and each collaborator call returns or raises
InvocationStep ==
    \/ FetchWebpage
    \/ JinaFetch
    \/ JinaUpdate
    \/ JinaNodes
    \/ RapidFetch
    \/ RapidUpdate
    \/ RapidNodes
    \/ BothFailed
    \/ Respond
    \/ CompareFetchWebpage
    \/ CompareJina
    \/ CompareRapid
    \/ CompareRespond

\* a started invocation is run to its end
FairSpec == Spec /\ WF_vars(InvocationStep)

\* ------------------------------------ the pure functions on bounded inputs
MaxMinRequired == 4

\* processing times in milliseconds: none, fast, 1.5 s, beyond the 10 s cap
ProcessingTimes == {0, 120, 1500, 12000}

Thresholds == {1, DefaultMinPopulated}

\* configurations that differ in the validation threshold only
MapperConfigs ==
    [RAPIDAPI_KEY : {TRUE}, CLEANUP_ON_FAILURE : {TRUE}, WORKER_ID : {FALSE},
     REQUEST_TIMEOUT : {FALSE}, VALID : {TRUE},
     MIN_POPULATED_FIELDS_THRESHOLD : Thresholds]

NameValues == {Absent, NoneV, "", Blank, "Acme Corp", Padded("Acme  Corp")}
WebsiteValues == {Absent, "", Blank, "acme.com", Padded("acme.com"),
                  Padded("https://acme.com"),
                  "https://acme.com", "int:25"}
SizeValues == {Absent, "", Blank, "11-50", Padded("11-50"), "11-50 employees",
               "10000+", "int:25"}

\* a record in which name, website, company_size, about and industry vary and
\* the four remaining key fields and specialties are given together or not at all
Record(n, w, s, a, i, rest) ==
    [k \in StdKeys |->
        CASE k = "name" -> n
          [] k = "website" -> w
          [] k = "company_size" -> s
          [] k = "about" -> a
          [] k = "industry" -> i
          [] k \in {"headquarters", "headline", "followers", "specialties"} -> rest
          [] OTHER -> Absent]

Records ==
    {Record(n, w, s, a, i, rest) :
        n \in NameValues, w \in WebsiteValues, s \in SizeValues,
        a \in {Absent, "We build things"}, i \in {Absent, "Software"},
        rest \in {Absent, "Berlin"}}

\* the records two providers may give for one company
ComparedRecords ==
    {EmptyRec,
     Record("Acme Corp", Absent, Absent, Absent, Absent, Absent),
     Record("Acme Corp", "https://acme.com", Absent, Absent, Absent, Absent),
     Record("Acme Corp", "", "11-50", "We build things", Absent, Absent),
     Record(Absent, "https://acme.com", "11-50", "We build things", "Software",
            Absent),
     Record("Acme Corp", "https://acme.com", "11-50", "We build things",
            "Software", "Berlin")}

PureInputs ==
    {[NoArgs EXCEPT !.kind = "data", !.data = r] : r \in Records}
    \cup {[NoArgs EXCEPT !.kind = "pair", !.data = r, !.other_data = o] :
              r, o \in ComparedRecords}
    \cup {[NoArgs EXCEPT !.kind = "html", !.html = h] : h \in HtmlResponses}
    \cup {[NoArgs EXCEPT !.kind = "rapid_data", !.rapid_data = rd] : rd \in RapidPayloads}
    \cup {NoArgs}

PureInit ==
    /\ action = "process"
    /\ fn = "none"
    /\ args \in PureInputs
    /\ returned = NoReturn
    /\ cfg \in MapperConfigs
    /\ processor = NoProcessor
    /\ invocations = 0
    /\ pc = "idle"
    /\ payload = NoPayload
    /\ url = Absent
    /\ extracted_data = EmptyRec
    /\ update_data = EmptyRec
    /\ jina_result = NoResult
    /\ rapidapi_result = NoResult
    /\ result = NoResult
    /\ response = NoResponse
    /\ calls = <<>>

\* the variables of the handler, which no pure call touches
handlerVars == <<cfg, processor, invocations, pc, payload, url, extracted_data,
                 update_data, jina_result, rapidapi_result, result, response,
                 calls, action>>

\* validate_extracted_data(data, min_required); data.get raises on None
ApplyValidate ==
    /\ fn = "none" /\ args.kind \in {"data", "none"}
    /\ \E m \in {-1} \cup 0..MaxMinRequired :
         /\ args' = [args EXCEPT !.min_required = m]
         /\ returned' =
               IF args.kind = "none" THEN [NoReturn EXCEPT !.raised = TRUE]
               ELSE [NoReturn EXCEPT !.valid =
                       validate_extracted_data(args.data, IF m = -1 THEN 0 ELSE m,
                                               cfg.MIN_POPULATED_FIELDS_THRESHOLD)]
    /\ fn' = "validate_extracted_data"
    /\ UNCHANGED handlerVars

\* normalize_company_data(data); data.copy raises on None
ApplyNormalize ==
    /\ fn = "none" /\ args.kind \in {"data", "none"}
    /\ returned' = IF args.kind = "none" THEN [NoReturn EXCEPT !.raised = TRUE]
                   ELSE [NoReturn EXCEPT !.record = normalize_company_data(args.data)]
    /\ fn' = "normalize_company_data"
    /\ UNCHANGED <<args, handlerVars>>

\* map_jina_to_standard(jina_data), applied to a dict or to what
\* html_to_object extracted
ApplyMapJina ==
    /\ fn = "none" /\ args.kind \in {"data", "html"}
    /\ returned' = [NoReturn EXCEPT !.record =
                      map_jina_to_standard(IF args.kind = "data" THEN args.data
                                           ELSE html_to_object(args.html))]
    /\ fn' = "map_jina_to_standard"
    /\ UNCHANGED <<args, handlerVars>>

\* map_rapidapi_to_standard(rapid_data)
ApplyMapRapid ==
    /\ fn = "none" /\ args.kind = "rapid_data"
    /\ returned' = IF MapRaises(args.rapid_data)
                   THEN [NoReturn EXCEPT !.raised = TRUE]
                   ELSE [NoReturn EXCEPT !.record =
                           map_rapidapi_to_standard(args.rapid_data)]
    /\ fn' = "map_rapidapi_to_standard"
    /\ UNCHANGED <<args, handlerVars>>

\* html_to_object(html_content)
ApplyHtmlToObject ==
    /\ fn = "none" /\ args.kind = "html"
    /\ returned' = [NoReturn EXCEPT !.record = html_to_object(args.html)]
    /\ fn' = "html_to_object"
    /\ UNCHANGED <<args, handlerVars>>

\* calculate_data_quality_score(data, processing_time)
ApplyQualityScore ==
    /\ fn = "none" /\ args.kind \in {"data", "none"}
    /\ \E t \in ProcessingTimes :
         /\ args' = [args EXCEPT !.processing_time = t]
         /\ returned' = [NoReturn EXCEPT !.quality =
                           calculate_data_quality_score(args.kind = "none",
                                                        args.data, t)]
    /\ fn' = "calculate_data_quality_score"
    /\ UNCHANGED handlerVars

\* compare_api_quality(jina_data, rapidapi_data, jina_time, rapidapi_time)
ApplyCompareQuality ==
    /\ fn = "none" /\ args.kind = "pair"
    /\ \E jt, rt \in ProcessingTimes :
         /\ args' = [args EXCEPT !.processing_time = jt, !.other_time = rt]
         /\ returned' = [NoReturn EXCEPT !.comparison =
                           compare_api_quality(args.data, args.other_data, jt, rt)]
    /\ fn' = "compare_api_quality"
    /\ UNCHANGED handlerVars

\* _generate_field_comparison(jina_test, rapidapi_test) on the results
\* the two provider tests can return: a test succeeds with a non-empty record
ApplyFieldComparison ==
    /\ fn = "none" /\ args.kind = "pair"
    /\ \E js, rs \in TestShapes, jt, rt \in ProcessingTimes :
         /\ js = "ok" => TruthyDict(args.data)
         /\ rs = "ok" => TruthyDict(args.other_data)
         /\ args' = [args EXCEPT !.processing_time = jt, !.other_time = rt,
                                  !.shape = js, !.other_shape = rs]
         /\ returned' = [NoReturn EXCEPT !.field_comparison =
                           _generate_field_comparison(
                               TestReportOf(js, args.data, jt),
                               TestReportOf(rs, args.other_data, rt))]
    /\ fn' = "_generate_field_comparison"
    /\ UNCHANGED handlerVars

PureNext ==
    \/ ApplyCompareQuality
    \/ ApplyFieldComparison
    \/ ApplyValidate
    \/ ApplyNormalize
    \/ ApplyMapJina
    \/ ApplyMapRapid
    \/ ApplyHtmlToObject
    \/ ApplyQualityScore

PureSpec == PureInit /\ [][PureNext]_vars

PureTypeOK ==
    /\ fn \in {"none", "validate_extracted_data", "normalize_company_data",
               "map_jina_to_standard", "map_rapidapi_to_standard",
               "html_to_object", "calculate_data_quality_score",
               "compare_api_quality", "_generate_field_comparison"}
    /\ args.kind \in {"none", "data", "html", "rapid_data", "pair"}
    /\ args.other_time \in ProcessingTimes
    /\ args.shape \in TestShapes /\ args.other_shape \in TestShapes
    /\ args.min_required \in -1..MaxMinRequired
    /\ args.processing_time \in ProcessingTimes
    /\ returned.raised \in BOOLEAN /\ returned.valid \in BOOLEAN
    /\ DOMAIN returned.record = StdKeys
    /\ cfg \in MapperConfigs

TypeOK ==
    /\ cfg \in Configs
    /\ invocations \in 0..MaxInvocations
    /\ pc \in {"idle", "fetch_webpage", "jina_fetch", "jina_update", "jina_nodes",
               "rapid_fetch", "rapid_update", "rapid_nodes", "both_failed",
               "respond", "compare_fetch", "compare_jina", "compare_rapid",
               "compare_respond"}
    /\ action \in {"process", "compare"}


\* ------------------------------------------------------------- properties
\* positions in the call log of the calls of one operation
CallsOf(op) == {i \in 1..Len(calls) : calls[i].op = op}

Count(op) == Cardinality(CallsOf(op))

Called(op) == CallsOf(op) # {}

\* process_webpage has returned its result to lambda_handler
ProcessReturned == pc = "respond"

\* the primary fetch of this invocation returned markup whose extracted record
\* passes validate_extracted_data
PrimaryFetchedValid == \E i \in CallsOf("jina_fetch") : calls[i].ret = "markup:valid"

\* no update_webpage call of this invocation returned false
UpdateNeverFalse == \A i \in CallsOf("update_webpage") : calls[i].ret = "True"

C2_FallbackSuccess ==
    (/\ ProcessReturned
     /\ \E i \in CallsOf("jina_fetch") : calls[i].ret = "None"
     /\ processor.rapidapi_fetcher
     /\ \E i \in CallsOf("rapidapi_fetch") :
            calls[i].ret = "payload:name,description,website"
     /\ UpdateNeverFalse)
        => (result.success /\ result.via = "rapidapi")

\* both provider paths ended in a failure (the secondary possibly because no
\* credential is configured)
BothPathsFailed ==
    /\ ~jina_result.success /\ jina_result.error # Absent
    /\ ~rapidapi_result.success /\ rapidapi_result.error # Absent

BothFailedMarks ==
    {i \in CallsOf("mark_webpage_failed") : calls[i].etype = "both_apis_failed"}

\* C3: when process_webpage ends because both providers failed, exactly one of
\* the two backend actions is taken: cleanup_failed_webpage once (and no
\* both-failed mark) when the cleanup flag is set, otherwise one
\* mark_webpage_failed with the both-failed error (and no cleanup).
C3_CleanupOrMark ==
    (ProcessReturned /\ BothPathsFailed)
        => /\ result.errorType = "both_apis_failed"
           /\ IF cfg.CLEANUP_ON_FAILURE
              THEN Count("cleanup_failed_webpage") = 1 /\ BothFailedMarks = {}
              ELSE Count("cleanup_failed_webpage") = 0
                   /\ Cardinality(BothFailedMarks) = 1

C3_Witness ==
    /\ ProcessReturned /\ BothPathsFailed
    /\ Called("rapidapi_fetch") /\ Called("cleanup_failed_webpage")

\* the entity lookup of this invocation of process_webpage returned nothing,
\* or an entity without URL
LookupMissed ==
    /\ action = "process"
    /\ calls # <<>>
    /\ calls[1].op = "fetch_webpage"
    /\ calls[1].ret \in {"none", "emptydict", "dict:nourl"}

\* C4: when the entity lookup returns nothing or the entity has no URL,
\* process_webpage returns a failure at once: no provider fetch, no
\* update_webpage, no update_nodes_with_company_data and no
\* cleanup_failed_webpage is made.
C4_PreconditionFailure ==
    LookupMissed
        => /\ pc \in {"respond", "idle"}
           /\ ~result.success /\ result.error # Absent
           /\ \A i \in 1..Len(calls) :
                 calls[i].op \in {"fetch_webpage", "mark_webpage_failed"}

C4_Witness ==
    /\ ProcessReturned /\ LookupMissed /\ calls[1].ret = "dict:nourl"
    /\ result.errorType = "missing_url"

\* C5: no exception leaves process_webpage, whatever the REST calls of the
\* backend and the providers do (raise included, also in the call made while
\* an earlier exception is handled): it returns a result that is a success or
\* a failure with an error.
C5_NoExceptionEscapes ==
    /\ response.origin # "process_webpage"
    /\ ProcessReturned => (result.success \/ result.error # Absent)

C5_Witness ==
    /\ ProcessReturned
    /\ \E i \in CallsOf("mark_webpage_failed") :
          /\ calls[i].etype \in {"jina_processing_error",
                                 "rapidapi_processing_error", "processing_error"}
          /\ calls[i].api = "raise"

\* C6: update_webpage is only invoked with a record that the provider path it
\* belongs to has validated: it holds at least the configured minimum of
\* non-blank key fields and directly follows the fetch of its provider.
C6_OnlyValidatedPersisted ==
    \A i \in CallsOf("update_webpage") :
        /\ ValidFields(calls[i].data) >= cfg.MIN_POPULATED_FIELDS_THRESHOLD
        /\ i > 1
        /\ calls[i - 1].op = (IF calls[i].data["processed_via"] = "jina"
                              THEN "jina_fetch" ELSE "rapidapi_fetch")
        /\ calls[i - 1].ret \in {"markup:valid", "payload",
                                 "payload:name,description,website"}

C6_Witness ==
    \E i \in CallsOf("update_webpage") :
        /\ calls[i].data["processed_via"] = "rapidapi"
        /\ ValidFields(calls[i].data) = cfg.MIN_POPULATED_FIELDS_THRESHOLD

\* C7: the secondary fetcher is invoked only after the primary path has
\* failed and only by a processor built with the secondary credential; it is
\* never invoked in an invocation whose primary path succeeded.
C7_FallbackOnlyAfterPrimaryFailed ==
    (action = "process" /\ Called("rapidapi_fetch"))
        => /\ processor.rapidapi_fetcher /\ cfg.RAPIDAPI_KEY
           /\ ~jina_result.success /\ jina_result.error # Absent
           /\ \A i \in CallsOf("rapidapi_fetch") :
                 \E j \in CallsOf("jina_fetch") : j < i

C7_Witness == Called("rapidapi_fetch") /\ ProcessReturned /\ result.success

\* lambda_handler has returned a response for a process request with a
\* webpageId
Answered ==
    /\ action = "process"
    /\ response.kind = "returned" /\ Truthy(payload.webpageId)

\* C8 (as stated): a process request that carries a webpageId is answered with
\* statusCode 200 for any completed attempt, success or failure.
C8_Always200 == Answered => response.statusCode = 200

\* C8 (amended): a process request that carries a webpageId is answered with
\* statusCode 200 exactly when process_webpage reports success and with 500
\* when it reports failure; a request without webpageId is answered with 400.
C8_StatusFollowsSuccess ==
    response.kind = "returned"
        => IF Truthy(payload.webpageId)
           THEN /\ response.body.success = result.success
                /\ response.statusCode = (IF result.success THEN 200 ELSE 500)
           ELSE response.statusCode = 400

C8_Witness == Answered /\ ~result.success /\ response.statusCode = 500

\* C9: an invocation whose request has no webpageId is answered with
\* statusCode 400, success false and the request's nodeId and userId; no
\* processor is constructed or invoked and no collaborator is called.
C9_BadRequest ==
    [][(invocations' = invocations + 1 /\ ~Truthy(payload'.webpageId))
          => /\ response'.kind = "returned"
             /\ response'.statusCode = 400
             /\ ~response'.body.success
             /\ response'.body.nodeId = payload'.nodeId
             /\ response'.body.userId = payload'.userId
             /\ processor' = processor
             /\ calls' = <<>>
             /\ pc' = "idle"]_vars

C9_Witness ==
    /\ response.kind = "returned" /\ response.statusCode = 400
    /\ response.body.nodeId = "node-2" /\ response.body.userId = NoneV
    /\ ~processor.exists /\ calls = <<>>

\* C10: a both-failed result carries the error of the primary path's failure
\* result and the error of the fallback path's failure result (the
\* not-configured reason without credential); lambda_handler copies both into
\* the failure body unchanged, and a null provider error in a failure body
\* means that the provider was not attempted.
C10_BothErrorsCarried ==
    /\ result.errorType = "both_apis_failed"
          => /\ jina_result.error # Absent
             /\ result.jinaError = jina_result.error
             /\ rapidapi_result.error # Absent
             /\ result.rapidapiError = rapidapi_result.error
             /\ ~processor.rapidapi_fetcher
                   => result.rapidapiError = "rapidapi_key_not_configured"
    /\ (Answered /\ ~response.body.success)
          => /\ response.body.jinaError = Get(result.jinaError)
             /\ response.body.rapidapiError = Get(result.rapidapiError)
             /\ response.body.jinaError = NoneV => ~Called("jina_fetch")
             /\ response.body.rapidapiError = NoneV => ~Called("rapidapi_fetch")

C10_Witness ==
    /\ Answered
    /\ response.body.errorType = "both_apis_failed"
    /\ response.body.jinaError = "data_validation_failed"
    /\ response.body.rapidapiError = "rapidapi_fetch_failed"

\* the labels of the spec's error taxonomy for the failures process_webpage
\* returns
SpecTaxonomy == {"entity_not_found", "missing_url", "both_providers_failed",
                 "unexpected_processing_error"}

\* the labels process_webpage passes to _failure_result (lines 78, 85, 119, 132)
CodeTaxonomy == {"webpage_not_found", "missing_url", "both_apis_failed",
                 "processing_error"}

\* process_webpage returned a failure result
FailureReturned == ProcessReturned /\ ~result.success

\* the top-level handler of process_webpage ran: it made the mark call with
\* the generic label
TopLevelHandled ==
    \E i \in CallsOf("mark_webpage_failed") : calls[i].etype = "processing_error"

Validated == fn = "validate_extracted_data" /\ ~returned.raised

\* C12 (as stated): validate_extracted_data(record, min_required) is true iff
\* the number of key fields present and non-blank in record is at least the
\* threshold, the threshold being min_required when it is given and the
\* configured minimum otherwise.
C12_ThresholdIsGivenArgument ==
    Validated
        => (returned.valid <=>
               ValidFields(args.data) >=
                   (IF args.min_required # -1 THEN args.min_required
                    ELSE cfg.MIN_POPULATED_FIELDS_THRESHOLD))

\* C13 (as stated): validate_extracted_data(record, min_required=0) is true
\* for every record, the empty one included, whatever the configured minimum.
C13_ZeroAlwaysValid == (Validated /\ args.min_required = 0) => returned.valid

\* C14: normalize_company_data is idempotent: normalising a normalised record
\* changes nothing.
C14_NormalizeIdempotent ==
    (fn = "normalize_company_data" /\ ~returned.raised)
        => normalize_company_data(returned.record) = returned.record

C14_Witness ==
    /\ fn = "normalize_company_data"
    /\ args.data["website"] = Padded("acme.com")
    /\ returned.record["website"] = "https://acme.com"
    /\ args.data["company_size"] = Padded("11-50")
    /\ returned.record["company_size"] = "11-50 employees"
    /\ args.data["name"] = Padded("Acme  Corp")
    /\ returned.record["name"] = "Acme Corp"

\* a mapper returned a record
Mapped ==
    /\ fn \in {"map_rapidapi_to_standard", "map_jina_to_standard"}
    /\ ~returned.raised

\* C15 (as stated): every key in the output of map_rapidapi_to_standard and
\* map_jina_to_standard has a non-empty, non-null value; a field whose mapped
\* value is null or falsy is omitted, company_size included when neither
\* staffCountRange nor staffCount is given.
C15_NoEmptyMappedValue ==
    Mapped
        => /\ \A k \in StdKeys :
                 returned.record[k] # Absent => Truthy(returned.record[k])
           /\ (/\ fn = "map_rapidapi_to_standard"
               /\ ~Truthy(args.rapid_data["staffCountRange"])
               /\ ~Truthy(args.rapid_data["staffCount"]))
                 => returned.record["company_size"] = Absent

\* html_to_object returned
Extracted == fn = "html_to_object"

\* the field k was found in the markup
Found(k) == k \in MarkupFields /\ args.html.marks[k] # Absent

\* C16 (as stated): for every input of html_to_object the result contains
\* all ten baseline keys and a key whose field was not found holds the empty
\* string; for markup lacking every marker and for empty or invalid input all
\* ten are the empty string.
C16_TenKeysForEveryInput ==
    Extracted
        => \A k \in BaselineKeys :
              /\ returned.record[k] # Absent
              /\ ~Found(k) => returned.record[k] = ""

\* C16 (amended): for every non-empty text input the result contains all ten
\* baseline keys and a key whose field was not found holds the empty string,
\* so that markup lacking every marker gives ten empty strings; for the empty
\* string and for a non-text input the result is the empty mapping.
C16_TenKeysForMarkup ==
    Extracted
        => IF args.html.kind = "markup"
           THEN \A k \in StdKeys :
                   /\ returned.record[k] # Absent <=> k \in BaselineKeys
                   /\ (k \in BaselineKeys /\ ~Found(k)) => returned.record[k] = ""
           ELSE returned.record = EmptyRec

C16_Witness ==
    /\ Extracted /\ args.html.kind = "empty"
    /\ ~TruthyDict(returned.record)

\* calculate_data_quality_score returned
Scored == fn = "calculate_data_quality_score"

\* the scores of a report, in tenths of a point
Scores(q) == {q.overall_score, q.field_score, q.critical_score,
              q.completeness_score, q.speed_score}

\* C18 (as stated): for every non-empty record and processing time >= 0 the
\* overall score and the four sub-scores lie in 0..100; the overall score is
\* 0.3*field + 0.4*critical + 0.2*completeness + 0.1*speed rounded to one
\* decimal (checked up to the rounding of the sub-scores: within 0.1).
C18_ScoresInRange ==
    (Scored /\ args.kind = "data" /\ TruthyDict(args.data))
        => LET q == returned.quality
               weighted == 3 * q.field_score + 4 * q.critical_score
                           + 2 * q.completeness_score + q.speed_score
           IN /\ \A x \in Scores(q) : x >= 0 /\ x <= 1000
              /\ 10 * q.overall_score - weighted \in -10..10

\* C19: for an empty or absent record and any processing time,
\* calculate_data_quality_score returns overall_score 0 and grade F without
\* raising.
C19_EmptyScoresZero ==
    (Scored /\ (args.kind = "none" \/ ~TruthyDict(args.data)))
        => /\ ~returned.raised
           /\ returned.quality.overall_score = 0
           /\ returned.quality.grade = "F"

C19_Witness ==
    /\ Scored /\ args.kind = "none" /\ args.processing_time = 1500
    /\ returned.quality = NoDataQuality

\* C17 (as stated): every record passed to update_webpage satisfies the
\* CompanyRecord invariant: no key holds an empty string or null; a field the
\* provider did not supply is omitted.
C17_NoEmptyPersisted ==
    \A i \in CallsOf("update_webpage") :
        \A k \in StdKeys : calls[i].data[k] \notin {"", NoneV}

\* the invocation being served is a comparison
Comparing == action = "compare" /\ calls # <<>>

\* C20: compare_apis_for_webpage never writes to the backend: it invokes none
\* of update_webpage, mark_webpage_failed, update_nodes_with_company_data and
\* cleanup_failed_webpage, whatever the providers return or raise; its only
\* backend call is the entity lookup.
C20_CompareNeverWrites ==
    Comparing
        => /\ calls[1].op = "fetch_webpage"
           /\ \A i \in 2..Len(calls) : calls[i].op \in {"jina_fetch", "rapidapi_fetch"}
           /\ ~Called("update_webpage") /\ ~Called("mark_webpage_failed")
           /\ ~Called("update_nodes_with_company_data")
           /\ ~Called("cleanup_failed_webpage")

C20_Witness ==
    /\ Comparing /\ pc = "idle" /\ response.kind = "returned"
    /\ result.success /\ Len(calls) = 3
    /\ calls[2].ret = "None" /\ calls[3].ret = "raised"
    /\ ~jina_result.success /\ ~rapidapi_result.success

\* an invocation of process_webpage is being served or has been served
Processing == action = "process" /\ calls # <<>>

\* C21: there is no retry within an invocation of process_webpage: the
\* primary fetcher is invoked at most once and the secondary fetcher at most
\* once, the primary fetch precedes the secondary fetch, and a provider whose
\* fetch failed is not fetched again.
C21_NoRetry ==
    Processing
        => /\ Count("jina_fetch") <= 1
           /\ Count("rapidapi_fetch") <= 1
           /\ \A i \in CallsOf("rapidapi_fetch") :
                 \E j \in CallsOf("jina_fetch") : j < i

C21_Witness ==
    /\ Processing /\ ProcessReturned
    /\ \E j \in CallsOf("jina_fetch"), i \in CallsOf("rapidapi_fetch") :
          j < i /\ calls[j].ret = "None" /\ calls[i].ret = "None"
    /\ result.errorType = "both_apis_failed"

\* the terminal outcomes of process_webpage that the returned result matches
TerminalOutcomes ==
    {o \in {"success_primary", "success_fallback", "failure"} :
        CASE o = "success_primary" -> result.success /\ result.via = "jina"
          [] o = "success_fallback" -> result.success /\ result.via = "rapidapi"
          [] OTHER -> /\ ~result.success /\ result.error # Absent
                      /\ result.errorType \in CodeTaxonomy}

\* the last record persisted in this invocation came from the provider the
\* result names
ViaNamesPersisted ==
    /\ Called("update_webpage")
    /\ LET i == CHOOSE i \in CallsOf("update_webpage") :
                    \A j \in CallsOf("update_webpage") : j <= i
       IN calls[i].ret = "True" /\ calls[i].data["processed_via"] = result.via

\* C22: every invocation of process_webpage terminates, in exactly one
\* terminal outcome: success via the primary provider, success via the
\* fallback provider, or a failure (precondition failure, both providers
\* failed, processing error); a success result names the provider that
\* produced the persisted data.
C22_TerminatesInOneOutcome ==
    /\ [](ProcessReturned => /\ Cardinality(TerminalOutcomes) = 1
                             /\ result.success => ViaNamesPersisted)
    /\ [](pc = "fetch_webpage" => <>ProcessReturned)

C22_Witness ==
    /\ ProcessReturned /\ TerminalOutcomes = {"success_fallback"}
    /\ ViaNamesPersisted

\* an exception reached the top level of process_webpage: the looked-up
\* webpage is no mapping, so that webpage.get raises outside the provider
\* paths
TopLevelRaised ==
    /\ Processing /\ pc \in {"respond", "idle"}
    /\ calls[1].ret = "nondict"

\* C23: when an exception reaches the top level of process_webpage, the
\* backend is told through exactly one mark_webpage_failed call carrying the
\* generic processing-error label, and the invocation returns a failure
\* result with that error type.
C23_TopLevelMarkedOnce ==
    TopLevelRaised
        => /\ Cardinality({i \in CallsOf("mark_webpage_failed") :
                              calls[i].etype = "processing_error"}) = 1
           /\ Count("mark_webpage_failed") = 1
           /\ ~result.success
           /\ result.errorType = "processing_error"
           /\ response.origin # "process_webpage"

C23_Witness ==
    /\ TopLevelRaised /\ ProcessReturned
    /\ calls[Len(calls)].op = "mark_webpage_failed"
    /\ calls[Len(calls)].etype = "processing_error"
    /\ calls[Len(calls)].api = "raise"

\* process_webpage returned a success result
Succeeded == Processing /\ ProcessReturned /\ result.success

\* the last call of the operation op in the invocation
LastCall(op) ==
    CHOOSE i \in CallsOf(op) : \A j \in CallsOf(op) : j <= i

\* the number of keys of a record that hold a non-empty value
NonEmptyKeys(rec) ==
    Cardinality({k \in StdKeys : rec[k] \notin {Absent, NoneV, "", "int:0"}})

\* C24: on success fieldsExtracted is the number of keys holding a non-empty
\* value in the record as it was before add_processing_metadata (the metadata
\* keys are not counted), add_processing_metadata leaves its input unchanged,
\* and the record propagated by update_nodes_with_company_data is that
\* pre-metadata record.
C24_FieldsCountedBeforeMetadata ==
    Succeeded
        => LET persisted == calls[LastCall("update_webpage")].data
               propagated == calls[LastCall("update_nodes_with_company_data")].data
           IN /\ result.fieldsExtracted = NonEmptyKeys(propagated)
              /\ result.fieldsExtracted < NonEmptyKeys(persisted)
              /\ propagated = extracted_data
              /\ \A k \in MetadataKeys \ {"url"} :
                    propagated[k] = Absent /\ persisted[k] # Absent
              /\ \A k \in StdKeys \ MetadataKeys :
                    persisted[k] = IF propagated[k] = NoneV THEN Absent
                                   ELSE propagated[k]

C24_Witness ==
    /\ Succeeded /\ result.via = "jina"
    /\ result.fieldsExtracted = 4
    /\ \E k \in BaselineKeys : extracted_data[k] = ""
    /\ update_data["processed_via"] = "jina"

\* the jina and rapidapi test results given to _generate_field_comparison
JinaReport == TestReportOf(args.shape, args.data, args.processing_time)

RapidReport == TestReportOf(args.other_shape, args.other_data, args.other_time)

\* compare_api_quality returned
QualityCompared == fn = "compare_api_quality" /\ ~returned.raised

\* _generate_field_comparison returned a summary with winners
FieldsCompared ==
    /\ fn = "_generate_field_comparison" /\ ~returned.raised
    /\ JinaReport.success \/ RapidReport.success

\* both tests measured a total time and the two are equal
EqualElapsed ==
    /\ JinaReport.total_time # -1
    /\ JinaReport.total_time = RapidReport.total_time

\* C25 (as stated): every winner determination of the provider comparison
\* yields tie when the two compared quantities are equal (overall scores,
\* populated-field counts, elapsed times), in compare_api_quality and in the
\* summary of _generate_field_comparison; a score difference is flagged
\* significant exactly when it exceeds 10 points.
C25_TieWhenEqual ==
    /\ QualityCompared
          => LET c == returned.comparison
             IN /\ c.jina.overall_score = c.rapidapi.overall_score
                      => c.winners.overall = "tie"
                /\ c.jina.populated_fields = c.rapidapi.populated_fields
                      => c.winners.fields = "tie"
                /\ args.processing_time = args.other_time
                      => c.winners.speed = "tie"
                /\ c.significant_difference
                      <=> Abs(c.jina.overall_score - c.rapidapi.overall_score) > 100
    /\ FieldsCompared
          => LET s == returned.field_comparison.summary
             IN /\ s.jina_fields_count = s.rapidapi_fields_count
                      => s.winner_by_fields = "tie"
                /\ EqualElapsed => s.winner_by_speed = "tie"

\* the part of C25 the code satisfies: compare_api_quality, and the winner by
\* fields of the summary
C25_QualityTies ==
    /\ QualityCompared
          => LET c == returned.comparison
             IN /\ c.jina.overall_score = c.rapidapi.overall_score
                      => c.winners.overall = "tie"
                /\ c.jina.populated_fields = c.rapidapi.populated_fields
                      => c.winners.fields = "tie"
                /\ args.processing_time = args.other_time
                      => c.winners.speed = "tie"
                /\ c.significant_difference
                      <=> Abs(c.jina.overall_score - c.rapidapi.overall_score) > 100
    /\ FieldsCompared
          => LET s == returned.field_comparison.summary
             IN s.jina_fields_count = s.rapidapi_fields_count
                   => s.winner_by_fields = "tie"

\* both provider tests succeed after the same elapsed time and the summary
\* names the secondary provider the faster one
C25_Counterexample ==
    /\ FieldsCompared /\ JinaReport.success /\ RapidReport.success
    /\ EqualElapsed
    /\ returned.field_comparison.summary.winner_by_speed = "rapidapi"

\* lambda_handler was invoked and is not in the middle of serving the request
Served == invocations > 0 /\ pc = "idle"

\* C26 (as stated): lambda_handler always returns a response mapping with a
\* statusCode; an uncaught error while serving a request that carries a
\* webpageId, such as processor construction or configuration validation
\* raising, yields a server-error response instead of an exception escaping
\* the handler.
C26_AlwaysResponds ==
    Served
        => /\ response.kind = "returned"
           /\ response.statusCode \in {200, 400, 500}
           /\ (~MissingWebpageId(payload.webpageId) /\ ~processor.exists)
                 => response.statusCode = 500

\* the configuration is valid, the request carries a webpageId, and the
\* construction of the processor raises out of lambda_handler
C26_Counterexample ==
    /\ Served /\ cfg.VALID /\ ConstructionRaises(cfg)
    /\ ~MissingWebpageId(payload.webpageId)
    /\ response = Raised("_get_processor")

\* the fields of the processor: the secondary fetcher is there exactly when
\* a RapidAPI key is configured, as in a freshly constructed processor
FreshFields(p) == p.exists /\ (p.rapidapi_fetcher <=> cfg.RAPIDAPI_KEY)

\* C27: the cached processor is stateless between calls: no step of
\* process_webpage or compare_apis_for_webpage modifies a field of the
\* processor, so that every invocation on the reused processor runs with the
\* fields a freshly constructed processor would have.
C27_ProcessorStateless ==
    [][/\ processor.exists => processor' = processor
       /\ processor'.exists => FreshFields(processor')]_vars

C27_Witness ==
    /\ invocations = 2 /\ FreshFields(processor) /\ cfg.RAPIDAPI_KEY
    /\ action = "process" /\ ProcessReturned
    /\ result.success /\ result.via = "rapidapi"

\* a step of lambda_handler up to the dispatch to the processor
Invoked == invocations' = invocations + 1

\* C28: the processor is lazily initialised once: after a construction has
\* succeeded no invocation constructs or validates again and every later
\* invocation reuses the same instance; a construction that raises leaves
\* the cache unset, so that the next invocation attempts it again; a request
\* without webpageId constructs nothing.
C28_LazyOnce ==
    [][Invoked =>
         IF processor.exists
         THEN processor' = processor /\ response'.kind # "raised"
         ELSE IF MissingWebpageId(payload'.webpageId)
         THEN processor' = processor
         ELSE IF cfg.VALID /\ cfg.REQUEST_TIMEOUT
         THEN /\ processor'.exists /\ processor'.instance = 1
              /\ response' = NoResponse
         ELSE /\ processor' = NoProcessor
              /\ response' = Raised("_get_processor")]_vars

C28_Witness ==
    /\ invocations = 2 /\ processor.exists /\ processor.instance = 1
    /\ pc = "idle" /\ response.kind = "returned" /\ response.statusCode = 200

\* C29 (as stated): in an invocation of process_webpage that ends in
\* success, mark_webpage_failed is never invoked: a primary-path failure
\* recovered by the fallback provider does not mark the webpage failed in
\* the backend.
C29_SuccessNeverMarksFailed == Succeeded => ~Called("mark_webpage_failed")

\* the primary fetch returned nothing, the webpage was marked failed with
\* jina_fetch_failed, and the fallback provider then succeeded
C29_Counterexample ==
    /\ Succeeded /\ result.via = "rapidapi"
    /\ calls[2].op = "jina_fetch" /\ calls[2].ret = "None"
    /\ calls[3].op = "mark_webpage_failed"
    /\ calls[3].etype = "jina_fetch_failed"
    /\ Count("mark_webpage_failed") = 1

\* C30 (as stated): in every invocation of process_webpage update_webpage is
\* invoked at most once: after a validated record of one provider was handed
\* to the backend, no second persistence attempt with the other provider's
\* record is made, also when the first update reports failure.
C30_UpdateAtMostOnce == Processing => Count("update_webpage") <= 1

\* the update with the primary record reported failure and the secondary
\* record was handed to update_webpage in the same invocation
C30_Counterexample ==
    /\ Processing /\ Count("update_webpage") = 2
    /\ \E i, j \in CallsOf("update_webpage") :
          /\ i < j
          /\ calls[i].data["processed_via"] = "jina" /\ calls[i].ret = "False"
          /\ calls[j].data["processed_via"] = "rapidapi"

====
